---------------------------- MODULE Spec2Model ----------------------------
(***************************************************************************)
(* Verification model of xlcalculator's numeric base-conversion functions  *)
(* (xlcalculator/xlfunctions/engineering.py): DEC2BIN .. HEX2DEC.          *)
(*                                                                         *)
(* Python integers are unbounded, while the model checker's integers are   *)
(* 32 bits wide; the 40-bit hexadecimal family does not fit.  Integers of  *)
(* the program are therefore modelled as two-limb numbers                  *)
(*     [hi |-> h, lo |-> l]  with value  h * Limb + l,  0 <= l < Limb,     *)
(* h signed (floor representation), which is exact for every value the     *)
(* functions can compute on the inputs explored here.                      *)
(*                                                                         *)
(* Python strings are modelled as sequences of one-character strings.      *)
(***************************************************************************)
EXTENDS Integers, Sequences, FiniteSets, TLC

---------------------------------------------------------------------------
(* Unbounded integers (Python int)                                         *)

Limb == 1024 * 1024

Norm(h, l) == [hi |-> h + (l \div Limb), lo |-> l % Limb]

BigOf(n) == Norm(0, n)

Zero == BigOf(0)

BAdd(a, b) == Norm(a.hi + b.hi, a.lo + b.lo)

BSub(a, b) == Norm(a.hi - b.hi, a.lo - b.lo)

BNeg(a) == BSub(Zero, a)

BLt(a, b) == a.hi < b.hi \/ (a.hi = b.hi /\ a.lo < b.lo)

BLe(a, b) == a = b \/ BLt(a, b)

BIsNeg(a) == a.hi < 0

\* a * k for a small non-negative k (a radix, at most 16)
BMulSmall(a, k) == Norm(a.hi * k, a.lo * k)

\* a // k and a % k for a >= 0 and a small positive k
BDivSmall(a, k) ==
    LET t == (a.hi % k) * Limb + a.lo
    IN  [hi |-> a.hi \div k, lo |-> t \div k]

BModSmall(a, k) == ((a.hi % k) * Limb + a.lo) % k

\* 1 << k   (also 2 ** k)
Shl1(k) == IF k < 20 THEN [hi |-> 0, lo |-> 2 ^ k]
                     ELSE [hi |-> 2 ^ (k - 20), lo |-> 0]

\* value & (1 << k), for value >= 0
AndBit(value, k) ==
    LET set == IF k < 20 THEN (value.lo \div (2 ^ k)) % 2 = 1
                         ELSE (value.hi \div (2 ^ (k - 20))) % 2 = 1
    IN  IF set THEN Shl1(k) ELSE Zero

\* value & ~mask that clears nothing
AndNotBit_Keep(value, k) == value

\* value & ~(1 << k), for value >= 0
AndNotBit(value, k) == BSub(value, AndBit(value, k))

---------------------------------------------------------------------------
(* Strings (Python str)                                                    *)

UpperDigits == << "0", "1", "2", "3", "4", "5", "6", "7",
                  "8", "9", "A", "B", "C", "D", "E", "F" >>

LowerDigits == << "0", "1", "2", "3", "4", "5", "6", "7",
                  "8", "9", "a", "b", "c", "d", "e", "f" >>

Range(s) == { s[i] : i \in 1..Len(s) }

\* str.upper() on one character
UpperChar(c) ==
    IF \E i \in 11..16 : LowerDigits[i] = c
    THEN UpperDigits[CHOOSE i \in 11..16 : LowerDigits[i] = c]
    ELSE IF c = "b" THEN "B" ELSE IF c = "o" THEN "O"
    ELSE IF c = "x" THEN "X" ELSE c

\* upper() left out
Upper_Identity(s) == s

Upper(s) == [i \in 1..Len(s) |-> UpperChar(s[i])]

\* value of one digit character, either case
DigitVal(c) == (CHOOSE i \in 1..16 : UpperDigits[i] = UpperChar(c)) - 1

\* int.__str__ digits / the digits bin(), oct() and hex() print, for n >= 0
RECURSIVE DigitsOf(_, _)
DigitsOf(n, radix) ==
    IF BLt(n, BigOf(radix))
    THEN << LowerDigits[n.lo + 1] >>
    ELSE DigitsOf(BDivSmall(n, radix), radix)
            \o << LowerDigits[BModSmall(n, radix) + 1] >>

BAbs(n) == IF BIsNeg(n) THEN BNeg(n) ELSE n

SignOf(n) == IF BIsNeg(n) THEN << "-" >> ELSE << >>

\* Python's bin(n), oct(n), hex(n): sign, "0", radix marker, digits
bin(n) == SignOf(n) \o << "0", "b" >> \o DigitsOf(BAbs(n), 2)

oct(n) == SignOf(n) \o << "0", "o" >> \o DigitsOf(BAbs(n), 8)

hex(n) == SignOf(n) \o << "0", "x" >> \o DigitsOf(BAbs(n), 16)

\* [2:] left out: the prefix of bin(), oct() and hex() is kept
Slice2_KeepPrefix(s) == s

\* s[2:]
Slice2(s) == SubSeq(s, 3, Len(s))

\* str(n) for an int n
StrInt(n) == SignOf(n) \o DigitsOf(BAbs(n), 10)

\* s.zfill(width) for a string without a sign
zfill(s, width) ==
    IF Len(s) >= width THEN s
    ELSE [i \in 1..(width - Len(s)) |-> "0"] \o s

\* the digits of s read in the radix, most significant first
RECURSIVE ParseDigits(_, _)
ParseDigits(s, radix) ==
    IF s = << >> THEN Zero
    ELSE BAdd(BMulSmall(ParseDigits(SubSeq(s, 1, Len(s) - 1), radix), radix),
              BigOf(DigitVal(s[Len(s)])))

---------------------------------------------------------------------------
(* Outcomes of a call: a returned string, a returned integer, or an error  *)

RetText(s) == [kind |-> "Text", text |-> s]

RetInt(n) == [kind |-> "Int", int |-> n]

Raise(k) == [kind |-> "Error", error |-> k]

IsErr(r) == r.kind = "Error"

NumExcelError == Raise("Num")

ValueExcelError == Raise("Value")

\* a Python ValueError, which is no ExcelError
PyValueError == Raise("PyValueError")

\* int(as_str, radix) applied to a string of digits of that radix
PyInt(as_str, radix) ==
    IF as_str = << >> THEN PyValueError
    ELSE RetInt(ParseDigits(as_str, radix))

---------------------------------------------------------------------------
(* Argument values (func_xltypes): Blank, Boolean, Number, Text, and the   *)
(* UNUSED default of places                                                *)

Blank == [kind |-> "Blank"]

Boolean(b) == [kind |-> "Boolean", bool |-> b]

\* A Number is sign * (mag + frac / 10): mag its integer part as a
\* non-negative integer, frac its first fractional digit; is_decimal tells a
\* float from an int.
Number(neg, mag, frac, dec) ==
    [kind |-> "Number", neg |-> neg, mag |-> mag, frac |-> frac,
     is_decimal |-> dec]

Text(s) == [kind |-> "Text", text |-> s]

UNUSED == [kind |-> "Unused"]

None == [kind |-> "None"]

DecimalChars == { UpperDigits[i] : i \in 1..10 }

\* text that reads as a base-10 integer, or as a float with an integral value
IsIntText(s) ==
    LET body == IF s # << >> /\ s[1] = "-" THEN SubSeq(s, 2, Len(s)) ELSE s
        dot  == IF \E i \in 1..Len(body) : body[i] = "."
                THEN CHOOSE i \in 1..Len(body) : body[i] = "."
                ELSE Len(body) + 1
        ip   == SubSeq(body, 1, dot - 1)
        fp   == SubSeq(body, dot + 1, Len(body))
    IN  /\ ip # << >>
        /\ Range(ip) \subseteq DecimalChars
        /\ Range(fp) \subseteq { "0" }

IntTextValue(s) ==
    LET neg  == s[1] = "-"
        body == IF neg THEN SubSeq(s, 2, Len(s)) ELSE s
        dot  == IF \E i \in 1..Len(body) : body[i] = "."
                THEN CHOOSE i \in 1..Len(body) : body[i] = "."
                ELSE Len(body) + 1
        v    == ParseDigits(SubSeq(body, 1, dot - 1), 10)
    IN  IF neg THEN BNeg(v) ELSE v

\* int(x) for an argument value: truncation toward zero for a Number, 0 for
\* Blank, the parsed integer for Text (ValueExcelError if it does not parse)
IntOf(x) ==
    CASE x.kind = "Blank"   -> RetInt(Zero)
      [] x.kind = "Boolean" -> RetInt(BigOf(IF x.bool THEN 1 ELSE 0))
      [] x.kind = "Number"  -> RetInt(IF x.neg THEN BNeg(x.mag) ELSE x.mag)
      [] x.kind = "Text"    -> IF IsIntText(x.text)
                               THEN RetInt(IntTextValue(x.text))
                               ELSE ValueExcelError

\* number.value.is_integer()
IsInteger(x) == x.frac = 0

\* str(x) for a Text
StrOf(x) == x.text

\* bool(x): Blank, the empty Text and a zero Number are falsy
Truthy(x) ==
    CASE x.kind = "Blank"   -> FALSE
      [] x.kind = "Boolean" -> x.bool
      [] x.kind = "Number"  -> ~(x.mag = Zero /\ x.frac = 0)
      [] x.kind = "Text"    -> x.text # << >>

---------------------------------------------------------------------------
(* Steps the twelve functions share verbatim                               *)

\* CoercePlaces taking a Blank places for an omitted one
CoercePlaces_BlankAsUnused(places) ==
    IF places.kind = "Boolean" THEN ValueExcelError
    ELSE IF places = UNUSED \/ places = Blank THEN None
    ELSE LET p == IntOf(places)
         IN  IF IsErr(p) THEN p
             ELSE IF ~(BLe(BigOf(1), p.int) /\ BLe(p.int, BigOf(10)))
                  THEN NumExcelError
                  ELSE p

\* CoercePlaces rejecting every Text places with Value
CoercePlaces_TextRejected(places) ==
    IF places.kind = "Boolean" \/ places.kind = "Text" THEN ValueExcelError
    ELSE IF places = UNUSED THEN None
    ELSE LET p == IntOf(places)
         IN  IF IsErr(p) THEN p
             ELSE IF ~(BLe(BigOf(1), p.int) /\ BLe(p.int, BigOf(10)))
                  THEN NumExcelError
                  ELSE p

\* CoercePlaces rejecting a Number places with a fractional part
CoercePlaces_FractionRejected(places) ==
    IF places.kind = "Boolean" THEN ValueExcelError
    ELSE IF places = UNUSED THEN None
    ELSE IF places.kind = "Number" /\ ~IsInteger(places) THEN NumExcelError
    ELSE LET p == IntOf(places)
         IN  IF IsErr(p) THEN p
             ELSE IF ~(BLe(BigOf(1), p.int) /\ BLe(p.int, BigOf(10)))
                  THEN NumExcelError
                  ELSE p

\* CoercePlaces accepting 0: 0 <= places <= 10
CoercePlaces_ZeroAllowed(places) ==
    IF places.kind = "Boolean" THEN ValueExcelError
    ELSE IF places = UNUSED THEN None
    ELSE LET p == IntOf(places)
         IN  IF IsErr(p) THEN p
             ELSE IF ~(BLe(BigOf(0), p.int) /\ BLe(p.int, BigOf(10)))
                  THEN NumExcelError
                  ELSE p

\* CoercePlaces accepting 11: 1 <= places <= 11
CoercePlaces_ElevenAllowed(places) ==
    IF places.kind = "Boolean" THEN ValueExcelError
    ELSE IF places = UNUSED THEN None
    ELSE LET p == IntOf(places)
         IN  IF IsErr(p) THEN p
             ELSE IF ~(BLe(BigOf(1), p.int) /\ BLe(p.int, BigOf(11)))
                  THEN NumExcelError
                  ELSE p

\* CoercePlaces without the Boolean rejection
CoercePlaces_NoBoolean(places) ==
    IF places = UNUSED THEN None
    ELSE LET p == IntOf(places)
         IN  IF IsErr(p) THEN p
             ELSE IF ~(BLe(BigOf(1), p.int) /\ BLe(p.int, BigOf(10)))
                  THEN NumExcelError
                  ELSE p

\* `places` handling at the head of every function that takes places:
\* Boolean -> ValueExcelError; UNUSED -> None; otherwise int(places), which
\* must lie in 1..10.  Yields None, the integer, or the error raised.
CoercePlaces(places) ==
    IF places.kind = "Boolean" THEN ValueExcelError
    ELSE IF places = UNUSED THEN None
    ELSE LET p == IntOf(places)
         IN  IF IsErr(p) THEN p
             ELSE IF ~(BLe(BigOf(1), p.int) /\ BLe(p.int, BigOf(10)))
                  THEN NumExcelError
                  ELSE p

\* AsStr without the test of the fractional part
AsStr_NoFractionTest(number) ==
    CASE number.kind = "Blank"  -> RetText(<< "0" >>)
      [] number.kind = "Number" -> RetText(StrInt(IntOf(number).int))
      [] number.kind = "Text"   -> RetText(StrOf(number))

\* AsStr reading a Blank number as the empty string
AsStr_BlankEmpty(number) ==
    CASE number.kind = "Blank"  -> RetText(<< >>)
      [] number.kind = "Number" ->
            IF number.is_decimal /\ ~IsInteger(number)
            THEN NumExcelError
            ELSE RetText(StrInt(IntOf(number).int))
      [] number.kind = "Text"   -> RetText(StrOf(number))

\* `number` to as_str in the BIN2*, OCT2* and HEX2BIN/HEX2OCT functions
\* (number is no Boolean here): Blank -> "0"; Number -> NumExcelError when
\* it is a float with a fractional part, else str(int(number)); Text ->
\* str(number)
AsStr(number) ==
    CASE number.kind = "Blank"  -> RetText(<< "0" >>)
      [] number.kind = "Number" ->
            IF number.is_decimal /\ ~IsInteger(number)
            THEN NumExcelError
            ELSE RetText(StrInt(IntOf(number).int))
      [] number.kind = "Text"   -> RetText(StrOf(number))

\* `number` to as_str in HEX2DEC: a falsy number -> "0", then Text, then
\* Number
AsStrHEX2DEC(number) ==
    IF ~Truthy(number) THEN RetText(<< "0" >>)
    ELSE IF number.kind = "Text" THEN RetText(StrOf(number))
    ELSE IF number.is_decimal /\ ~IsInteger(number)
         THEN NumExcelError
         ELSE RetText(StrInt(IntOf(number).int))

permitted_bin == { "0", "1" }

\* permitted_oct with the digit 8: set("012345678")
permitted_oct_WithEight == { UpperDigits[i] : i \in 1..9 }

permitted_oct == { UpperDigits[i] : i \in 1..8 }

\* permitted_hex without the lowercase letters: set("0123456789ABCDEF")
permitted_hex_UpperOnly == Range(UpperDigits)

permitted_hex == Range(UpperDigits) \cup Range(LowerDigits)

\* SignedOf with the mask one bit too high: 1 << width
SignedOf_MaskTooHigh(value, width) ==
    BSub(AndNotBit(value, width), AndBit(value, width))

\* SignedOf without the sign conversion
SignedOf_Unsigned(value, width) == value

\* (value & ~mask) - (value & mask)  with  mask = 1 << width - 1
SignedOf(value, width) ==
    BSub(AndNotBit(value, width - 1), AndBit(value, width - 1))

\* InRange with the upper bound included: lo <= x <= hi
InRange_HighIncluded(lo, x, hi) == BLe(lo, x) /\ BLe(x, hi)

\* InRange with the lower bound excluded: lo < x < hi
InRange_LowExcluded(lo, x, hi) == BLt(lo, x) /\ BLt(x, hi)

\* Between with both bounds included: lo <= x <= hi
Between_Inclusive(lo, x, hi) == BLe(lo, x) /\ BLe(x, hi)

\* lo < x < hi
Between(lo, x, hi) == BLt(lo, x) /\ BLt(x, hi)

\* lo <= x < hi
InRange(lo, x, hi) == BLe(lo, x) /\ BLt(x, hi)

\* the tail of the functions that end in string.zfill(desired_length)
PadDesired(string, negative, places) ==
    IF places = None THEN RetText(string)
    ELSE LET desired_length == IF negative THEN Len(string)
                                          ELSE places.int.lo
         IN  IF desired_length < Len(string) THEN NumExcelError
             ELSE RetText(zfill(string, desired_length))

\* PadPlaces holding a negative result to places as well
PadPlaces_IgnoresSign(string, negative, places) ==
    IF places = None THEN RetText(string)
    ELSE IF places.int.lo < Len(string) THEN NumExcelError
         ELSE RetText(zfill(string, places.int.lo))

\* PadPlaces without the test desired_length < len(string)
PadPlaces_NoLengthCheck(string, negative, places) ==
    IF places = None THEN RetText(string)
    ELSE RetText(zfill(string, places.int.lo))

\* the tail of the functions that end in string.zfill(places)
PadPlaces(string, negative, places) ==
    IF places = None THEN RetText(string)
    ELSE LET desired_length == IF negative THEN Len(string)
                                          ELSE places.int.lo
         IN  IF desired_length < Len(string) THEN NumExcelError
             ELSE RetText(zfill(string, places.int.lo))

---------------------------------------------------------------------------
(* The twelve conversion functions                                         *)

\* DEC2BIN rounding number down (floor) instead of truncating toward zero
DEC2BIN_Floors(number, places) ==
    LET p == CoercePlaces(places) IN
    IF IsErr(p) THEN p
    ELSE IF number.kind = "Boolean" THEN ValueExcelError
    ELSE LET n == IntOf(number) IN
    IF IsErr(n) THEN n
    ELSE LET floor == IF number.kind = "Number" /\ number.neg /\ number.frac # 0
                      THEN BSub(n.int, BigOf(1))
                      ELSE n.int
    IN  IF ~Between(BigOf(-513), floor, BigOf(512)) THEN NumExcelError
    ELSE LET negative == BIsNeg(floor)
             v        == IF negative THEN BAdd(floor, Shl1(10))
                                     ELSE floor
             string   == Slice2(bin(v))
         IN  PadDesired(string, negative, p)

\* DEC2BIN rejecting a Boolean number before it looks at places
DEC2BIN_BooleanFirst(number, places) ==
    IF number.kind = "Boolean" THEN ValueExcelError
    ELSE LET p == CoercePlaces(places) IN
    IF IsErr(p) THEN p
    ELSE LET n == IntOf(number) IN
    IF IsErr(n) THEN n
    ELSE IF ~Between(BigOf(-513), n.int, BigOf(512)) THEN NumExcelError
    ELSE LET negative == BIsNeg(n.int)
             v        == IF negative THEN BAdd(n.int, Shl1(10))
                                     ELSE n.int
             string   == Slice2(bin(v))
         IN  PadDesired(string, negative, p)

DEC2BIN(number, places) ==
    LET p == CoercePlaces(places) IN
    IF IsErr(p) THEN p
    ELSE IF number.kind = "Boolean" THEN ValueExcelError
    ELSE LET n == IntOf(number) IN
    IF IsErr(n) THEN n
    ELSE IF ~Between(BigOf(-513), n.int, BigOf(512)) THEN NumExcelError
    ELSE LET negative == BIsNeg(n.int)
             v        == IF negative THEN BAdd(n.int, Shl1(10))
                                     ELSE n.int
             string   == Slice2(bin(v))
         IN  PadDesired(string, negative, p)

\* DEC2OCT wrapping a negative number with the wrong width: 1 << 29
DEC2OCT_WrongWidth(number, places) ==
    LET p == CoercePlaces(places) IN
    IF IsErr(p) THEN p
    ELSE IF number.kind = "Boolean" THEN ValueExcelError
    ELSE LET n == IntOf(number) IN
    IF IsErr(n) THEN n
    ELSE IF ~InRange(BNeg(Shl1(29)), n.int, Shl1(29)) THEN NumExcelError
    ELSE LET negative == BIsNeg(n.int)
             v        == IF negative THEN BAdd(n.int, Shl1(29))
                                     ELSE n.int
             string   == Slice2(oct(v))
         IN  PadDesired(string, negative, p)

DEC2OCT(number, places) ==
    LET p == CoercePlaces(places) IN
    IF IsErr(p) THEN p
    ELSE IF number.kind = "Boolean" THEN ValueExcelError
    ELSE LET n == IntOf(number) IN
    IF IsErr(n) THEN n
    ELSE IF ~InRange(BNeg(Shl1(29)), n.int, Shl1(29)) THEN NumExcelError
    ELSE LET negative == BIsNeg(n.int)
             v        == IF negative THEN BAdd(n.int, Shl1(30))
                                     ELSE n.int
             string   == Slice2(oct(v))
         IN  PadDesired(string, negative, p)

DEC2HEX(number, places) ==
    LET p == CoercePlaces(places) IN
    IF IsErr(p) THEN p
    ELSE IF number.kind = "Boolean" THEN ValueExcelError
    ELSE LET n == IntOf(number) IN
    IF IsErr(n) THEN n
    ELSE IF ~InRange(BNeg(Shl1(39)), n.int, Shl1(39)) THEN NumExcelError
    ELSE LET negative == BIsNeg(n.int)
             v        == IF negative THEN BAdd(n.int, Shl1(40))
                                     ELSE n.int
             string   == Upper(Slice2(hex(v)))
         IN  PadPlaces(string, negative, p)

BIN2OCT(number, places) ==
    LET p == CoercePlaces(places) IN
    IF IsErr(p) THEN p
    ELSE IF number.kind = "Boolean" THEN ValueExcelError
    ELSE LET as_str == AsStr(number) IN
    IF IsErr(as_str) THEN as_str
    ELSE IF Range(as_str.text) \ permitted_bin # {} THEN NumExcelError
    ELSE LET value == PyInt(as_str.text, 2) IN
    IF IsErr(value) THEN value
    ELSE LET new_value == SignedOf(value.int, 10) IN
    IF ~InRange(BNeg(Shl1(9)), new_value, Shl1(9)) THEN NumExcelError
    ELSE LET negative == BIsNeg(new_value)
             v        == IF negative THEN BAdd(new_value, Shl1(30))
                                     ELSE new_value
             string   == Slice2(oct(v))
         IN  PadPlaces(string, negative, p)

BIN2DEC(number) ==
    IF number.kind = "Boolean" THEN ValueExcelError
    ELSE LET as_str == AsStr(number) IN
    IF IsErr(as_str) THEN as_str
    ELSE IF Range(as_str.text) \ permitted_bin # {} THEN NumExcelError
    ELSE LET value == PyInt(as_str.text, 2) IN
    IF IsErr(value) THEN value
    ELSE LET new_value == SignedOf(value.int, 10) IN
    IF ~InRange(BNeg(Shl1(9)), new_value, Shl1(9)) THEN NumExcelError
    ELSE RetInt(new_value)

BIN2HEX(number, places) ==
    LET p == CoercePlaces(places) IN
    IF IsErr(p) THEN p
    ELSE IF number.kind = "Boolean" THEN ValueExcelError
    ELSE LET as_str == AsStr(number) IN
    IF IsErr(as_str) THEN as_str
    ELSE IF Range(as_str.text) \ permitted_bin # {} THEN NumExcelError
    ELSE LET value == PyInt(as_str.text, 2) IN
    IF IsErr(value) THEN value
    ELSE LET new_value == SignedOf(value.int, 10) IN
    IF ~InRange(BNeg(Shl1(9)), new_value, Shl1(9)) THEN NumExcelError
    ELSE LET negative == BIsNeg(new_value)
             v        == IF negative THEN BAdd(new_value, Shl1(40))
                                     ELSE new_value
             string   == Upper(Slice2(hex(v)))
         IN  PadPlaces(string, negative, p)

OCT2BIN(number, places) ==
    LET p == CoercePlaces(places) IN
    IF IsErr(p) THEN p
    ELSE IF number.kind = "Boolean" THEN ValueExcelError
    ELSE LET as_str == AsStr(number) IN
    IF IsErr(as_str) THEN as_str
    ELSE IF Range(as_str.text) \ permitted_oct # {} THEN NumExcelError
    ELSE LET value == PyInt(as_str.text, 8) IN
    IF IsErr(value) THEN value
    ELSE LET new_value == SignedOf(value.int, 30) IN
    IF ~InRange(BigOf(-512), new_value, BigOf(512)) THEN NumExcelError
    ELSE LET negative == BIsNeg(new_value)
             v        == IF negative THEN BAdd(new_value, Shl1(10))
                                     ELSE new_value
             string   == Slice2(bin(v))
         IN  PadPlaces(string, negative, p)

OCT2DEC(number) ==
    IF number.kind = "Boolean" THEN ValueExcelError
    ELSE LET as_str == AsStr(number) IN
    IF IsErr(as_str) THEN as_str
    ELSE IF Range(as_str.text) \ permitted_oct # {} THEN NumExcelError
    ELSE LET value == PyInt(as_str.text, 8) IN
    IF IsErr(value) THEN value
    ELSE IF ~InRange(Zero, value.int, Shl1(30)) THEN NumExcelError
    ELSE RetInt(SignedOf(value.int, 30))

OCT2HEX(number, places) ==
    LET p == CoercePlaces(places) IN
    IF IsErr(p) THEN p
    ELSE IF number.kind = "Boolean" THEN ValueExcelError
    ELSE LET as_str == AsStr(number) IN
    IF IsErr(as_str) THEN as_str
    ELSE IF Range(as_str.text) \ permitted_oct # {} THEN NumExcelError
    ELSE LET value == PyInt(as_str.text, 8) IN
    IF IsErr(value) THEN value
    ELSE LET new_value == SignedOf(value.int, 30) IN
    IF ~InRange(BNeg(Shl1(30)), new_value, Shl1(30)) THEN NumExcelError
    ELSE LET negative == BIsNeg(new_value)
             v        == IF negative THEN BAdd(new_value, Shl1(40))
                                     ELSE new_value
             string   == Upper(Slice2(hex(v)))
         IN  PadDesired(string, negative, p)

HEX2BIN(number, places) ==
    LET p == CoercePlaces(places) IN
    IF IsErr(p) THEN p
    ELSE IF number.kind = "Boolean" THEN ValueExcelError
    ELSE LET as_str == AsStr(number) IN
    IF IsErr(as_str) THEN as_str
    ELSE IF Range(as_str.text) \ permitted_hex # {} THEN NumExcelError
    ELSE LET value == PyInt(as_str.text, 16) IN
    IF IsErr(value) THEN value
    ELSE LET new_value == SignedOf(value.int, 40) IN
    IF ~InRange(BNeg(Shl1(9)), new_value, Shl1(9)) THEN NumExcelError
    ELSE LET negative == BIsNeg(new_value)
             v        == IF negative THEN BAdd(new_value, Shl1(10))
                                     ELSE new_value
             string   == Slice2(bin(v))
         IN  PadPlaces(string, negative, p)

HEX2OCT(number, places) ==
    LET p == CoercePlaces(places) IN
    IF IsErr(p) THEN p
    ELSE IF number.kind = "Boolean" THEN ValueExcelError
    ELSE LET as_str == AsStr(number) IN
    IF IsErr(as_str) THEN as_str
    ELSE IF Range(as_str.text) \ permitted_hex # {} THEN NumExcelError
    ELSE LET value == PyInt(as_str.text, 16) IN
    IF IsErr(value) THEN value
    ELSE LET new_value == SignedOf(value.int, 40) IN
    IF ~InRange(BNeg(Shl1(29)), new_value, Shl1(29)) THEN NumExcelError
    ELSE LET negative == BIsNeg(new_value)
             v        == IF negative THEN BAdd(new_value, Shl1(30))
                                     ELSE new_value
             string   == Slice2(oct(v))
         IN  PadPlaces(string, negative, p)

HEX2DEC(number) ==
    IF number.kind = "Boolean" THEN ValueExcelError
    ELSE LET as_str == AsStrHEX2DEC(number) IN
    IF IsErr(as_str) THEN as_str
    ELSE IF Range(as_str.text) \ permitted_hex # {} THEN NumExcelError
    ELSE LET value == PyInt(as_str.text, 16) IN
    IF IsErr(value) THEN value
    ELSE IF ~InRange(Zero, value.int, Shl1(40)) THEN NumExcelError
    ELSE RetInt(SignedOf(value.int, 40))

\* the function of that name applied to the arguments
Apply(f, number, places) ==
    CASE f = "DEC2BIN" -> DEC2BIN(number, places)
      [] f = "DEC2OCT" -> DEC2OCT(number, places)
      [] f = "DEC2HEX" -> DEC2HEX(number, places)
      [] f = "BIN2OCT" -> BIN2OCT(number, places)
      [] f = "BIN2DEC" -> BIN2DEC(number)
      [] f = "BIN2HEX" -> BIN2HEX(number, places)
      [] f = "OCT2BIN" -> OCT2BIN(number, places)
      [] f = "OCT2DEC" -> OCT2DEC(number)
      [] f = "OCT2HEX" -> OCT2HEX(number, places)
      [] f = "HEX2BIN" -> HEX2BIN(number, places)
      [] f = "HEX2OCT" -> HEX2OCT(number, places)
      [] f = "HEX2DEC" -> HEX2DEC(number)

\* a returned value handed to the next function as its argument: validate_args
\* casts a str to Text and an int to Number
AsArg(r) ==
    IF r.kind = "Int"
    THEN Number(BIsNeg(r.int), BAbs(r.int), 0, FALSE)
    ELSE r

---------------------------------------------------------------------------
(* The second implementation of the twelve functions, in xlfunctions/math.py. *)
(* Its parameters are typed XlNumber (XlText in HEX2BIN, XlAnything in        *)
(* HEX2OCT and HEX2DEC): number is a Number where the functions below read    *)
(* it as one.                                                                 *)

\* `places` handling in math.py: no Boolean test
math_places(places) ==
    IF places = UNUSED THEN None
    ELSE LET p == IntOf(places)
         IN  IF IsErr(p) THEN p
             ELSE IF ~(BLe(BigOf(1), p.int) /\ BLe(p.int, BigOf(10)))
                  THEN NumExcelError
                  ELSE p

\* 10000000000
TenDigits == [hi |-> 9536, lo |-> 779264]

\* number < 0 for a Number
IsBelowZero(x) == x.neg /\ ~(x.mag = Zero /\ x.frac = 0)

\* int(as_str, 16) on a string that was not screened: a sign is accepted
math_int16(as_str) ==
    LET neg  == as_str # << >> /\ as_str[1] = "-"
        body == IF neg THEN SubSeq(as_str, 2, Len(as_str)) ELSE as_str
    IN  IF body = << >> \/ Range(body) \ permitted_hex # {} THEN PyValueError
        ELSE RetInt(IF neg THEN BNeg(ParseDigits(body, 16))
                           ELSE ParseDigits(body, 16))

\* the argument of an XlText parameter: a Number arrives as the Text of its
\* digits
XlText(x) ==
    CASE x.kind = "Text"   -> x
      [] x.kind = "Blank"  -> Text(<< >>)
      [] x.kind = "Number" ->
            Text(StrInt(IntOf(x).int)
                    \o (IF x.is_decimal THEN << ".", LowerDigits[x.frac + 1] >>
                                        ELSE << >>))

\* float(text): the text reads as a decimal numeral with an optional sign
\* and an optional point
IsFloatText(s) ==
    LET body == IF s # << >> /\ s[1] = "-" THEN SubSeq(s, 2, Len(s)) ELSE s
        dot  == IF \E i \in 1..Len(body) : body[i] = "."
                THEN CHOOSE i \in 1..Len(body) : body[i] = "."
                ELSE Len(body) + 1
        ip   == SubSeq(body, 1, dot - 1)
        fp   == SubSeq(body, dot + 1, Len(body))
    IN  /\ ip \o fp # << >>
        /\ Range(ip \o fp) \subseteq DecimalChars

\* float(text).is_integer() and int(float(text)), for a text that reads as a
\* float
FloatTextIsInteger(s) ==
    \A i \in 1..Len(s) : \A j \in (i + 1)..Len(s) : s[i] = "." => s[j] = "0"

FloatTextInt(s) ==
    LET neg  == s[1] = "-"
        body == IF neg THEN SubSeq(s, 2, Len(s)) ELSE s
        dot  == IF \E i \in 1..Len(body) : body[i] = "."
                THEN CHOOSE i \in 1..Len(body) : body[i] = "."
                ELSE Len(body) + 1
        v    == ParseDigits(SubSeq(body, 1, dot - 1), 10)
    IN  IF neg THEN BNeg(v) ELSE v

math_DEC2BIN(number, places) ==
    LET p == math_places(places) IN
    IF IsErr(p) THEN p
    ELSE LET n == IntOf(number) IN
    IF IsErr(n) THEN n
    ELSE IF ~Between(BigOf(-513), n.int, BigOf(512)) THEN NumExcelError
    ELSE LET negative == BIsNeg(n.int)
             v        == IF negative THEN BAdd(n.int, Shl1(10)) ELSE n.int
             string   == Slice2(bin(v))
         IN  PadDesired(string, negative, p)

math_DEC2OCT(number, places) ==
    LET p == math_places(places) IN
    IF IsErr(p) THEN p
    ELSE LET n == IntOf(number) IN
    IF IsErr(n) THEN n
    ELSE IF ~InRange(BNeg(Shl1(29)), n.int, Shl1(29)) THEN NumExcelError
    ELSE LET negative == BIsNeg(n.int)
             v        == IF negative THEN BAdd(n.int, Shl1(30)) ELSE n.int
             string   == Slice2(oct(v))
         IN  PadDesired(string, negative, p)

math_DEC2HEX(number, places) ==
    LET p == math_places(places) IN
    IF IsErr(p) THEN p
    ELSE LET n == IntOf(number) IN
    IF IsErr(n) THEN n
    ELSE IF ~InRange(BNeg(Shl1(39)), n.int, Shl1(39)) THEN NumExcelError
    ELSE LET negative == BIsNeg(n.int)
             v        == IF negative THEN BAdd(n.int, Shl1(40)) ELSE n.int
             string   == Upper(Slice2(hex(v)))
         IN  PadPlaces(string, negative, p)

\* the head BIN2OCT, BIN2DEC and BIN2HEX of math.py share: the integer test,
\* 0 <= number < 10000000000, the alphabet test and int(as_str, 2)
math_bin_value(number) ==
    IF ~IsInteger(number) THEN NumExcelError
    ELSE LET n == IntOf(number).int IN
    IF ~InRange(Zero, n, TenDigits) THEN NumExcelError
    ELSE IF Range(StrInt(n)) \ permitted_bin # {} THEN NumExcelError
    ELSE PyInt(StrInt(n), 2)

math_BIN2OCT(number, places) ==
    LET p == math_places(places) IN
    IF IsErr(p) THEN p
    ELSE LET value == math_bin_value(number) IN
    IF IsErr(value) THEN value
    ELSE LET new_value == SignedOf(value.int, 10)
             negative  == BIsNeg(new_value)
             v         == IF negative THEN BAdd(new_value, Shl1(30)) ELSE new_value
             string    == Slice2(oct(v))
         IN  PadPlaces(string, negative, p)

math_BIN2DEC(number) ==
    LET value == math_bin_value(number) IN
    IF IsErr(value) THEN value
    ELSE RetInt(SignedOf(value.int, 10))

math_BIN2HEX(number, places) ==
    LET p == math_places(places) IN
    IF IsErr(p) THEN p
    ELSE LET value == math_bin_value(number) IN
    IF IsErr(value) THEN value
    ELSE LET new_value == SignedOf(value.int, 10)
             negative  == BIsNeg(new_value)
             v         == IF negative THEN BAdd(new_value, Shl1(40)) ELSE new_value
             string    == Upper(Slice2(hex(v)))
         IN  PadPlaces(string, negative, p)

math_OCT2BIN(number, places) ==
    LET p == math_places(places) IN
    IF IsErr(p) THEN p
    ELSE IF ~IsInteger(number) THEN NumExcelError
    ELSE LET as_str == StrInt(IntOf(number).int) IN
    IF Range(as_str) \ permitted_oct # {} THEN NumExcelError
    ELSE LET value == PyInt(as_str, 8) IN
    IF IsErr(value) THEN value
    ELSE LET new_value == SignedOf(value.int, 30) IN
    IF ~InRange(BigOf(-512), new_value, BigOf(512)) THEN NumExcelError
    ELSE LET negative == BIsNeg(new_value)
             v        == IF negative THEN BAdd(new_value, Shl1(10)) ELSE new_value
             string   == Slice2(bin(v))
         IN  PadPlaces(string, negative, p)

math_OCT2DEC(number) ==
    IF ~IsInteger(number) THEN NumExcelError
    ELSE IF IsBelowZero(number) THEN NumExcelError
    ELSE LET as_str == StrInt(IntOf(number).int) IN
    IF Range(as_str) \ permitted_oct # {} THEN NumExcelError
    ELSE LET value == PyInt(as_str, 8) IN
    IF IsErr(value) THEN value
    ELSE IF ~InRange(Zero, value.int, Shl1(30)) THEN NumExcelError
    ELSE RetInt(SignedOf(value.int, 30))

math_OCT2HEX(number, places) ==
    LET p == math_places(places) IN
    IF IsErr(p) THEN p
    ELSE IF ~IsInteger(number) THEN NumExcelError
    ELSE IF IsBelowZero(number) THEN NumExcelError
    ELSE LET as_str == StrInt(IntOf(number).int) IN
    IF Range(as_str) \ permitted_oct # {} THEN NumExcelError
    ELSE LET value == PyInt(as_str, 8) IN
    IF IsErr(value) THEN value
    ELSE IF ~BLt(value.int, Shl1(30)) THEN NumExcelError
    ELSE LET new_value == SignedOf(value.int, 30)
             negative  == BIsNeg(new_value)
             v         == IF negative THEN BAdd(new_value, Shl1(40)) ELSE new_value
             string    == Upper(Slice2(hex(v)))
         IN  PadDesired(string, negative, p)

\* value in HEX2BIN of math.py: int(as_str, 16), and when that raises
\* ValueError, int(str(int(float(number))), 16) for a float that is an integer
math_hex2bin_value(number) ==
    LET t      == XlText(number)
        as_str == IF Truthy(t) THEN StrOf(t) ELSE << "0" >>
        first  == math_int16(as_str)
    IN  IF ~IsErr(first) THEN first
        ELSE IF ~IsFloatText(StrOf(t)) THEN PyValueError
        ELSE IF ~FloatTextIsInteger(StrOf(t)) THEN NumExcelError
        ELSE math_int16(StrInt(FloatTextInt(StrOf(t))))

math_HEX2BIN(number, places) ==
    LET p == math_places(places) IN
    IF IsErr(p) THEN p
    ELSE LET value == math_hex2bin_value(number) IN
    IF IsErr(value) THEN value
    ELSE LET new_value == SignedOf(value.int, 40) IN
    IF ~InRange(BigOf(-512), new_value, BigOf(512)) THEN NumExcelError
    ELSE LET negative == BIsNeg(new_value)
             v        == IF negative THEN BAdd(new_value, Shl1(10)) ELSE new_value
             string   == Slice2(bin(v))
         IN  PadPlaces(string, negative, p)

math_HEX2OCT(number, places) ==
    LET p == math_places(places) IN
    IF IsErr(p) THEN p
    ELSE LET as_str == AsStr(number) IN
    IF IsErr(as_str) THEN as_str
    ELSE LET value == math_int16(as_str.text) IN
    IF IsErr(value) THEN value
    ELSE LET new_value == SignedOf(value.int, 40) IN
    IF ~InRange(BNeg(Shl1(29)), new_value, Shl1(29)) THEN NumExcelError
    ELSE LET negative == BIsNeg(new_value)
             v        == IF negative THEN BAdd(new_value, Shl1(30)) ELSE new_value
             string   == Slice2(oct(v))
         IN  PadPlaces(string, negative, p)

math_HEX2DEC(number) ==
    LET as_str == AsStrHEX2DEC(number) IN
    IF IsErr(as_str) THEN as_str
    ELSE IF Range(as_str.text) \ permitted_hex # {} THEN NumExcelError
    ELSE LET value == PyInt(as_str.text, 16) IN
    IF IsErr(value) THEN value
    ELSE IF ~InRange(Zero, value.int, Shl1(40)) THEN NumExcelError
    ELSE RetInt(SignedOf(value.int, 40))

\* the function of that name in math.py applied to the arguments
math_Apply(f, number, places) ==
    CASE f = "DEC2BIN" -> math_DEC2BIN(number, places)
      [] f = "DEC2OCT" -> math_DEC2OCT(number, places)
      [] f = "DEC2HEX" -> math_DEC2HEX(number, places)
      [] f = "BIN2OCT" -> math_BIN2OCT(number, places)
      [] f = "BIN2DEC" -> math_BIN2DEC(number)
      [] f = "BIN2HEX" -> math_BIN2HEX(number, places)
      [] f = "OCT2BIN" -> math_OCT2BIN(number, places)
      [] f = "OCT2DEC" -> math_OCT2DEC(number)
      [] f = "OCT2HEX" -> math_OCT2HEX(number, places)
      [] f = "HEX2BIN" -> math_HEX2BIN(number, places)
      [] f = "HEX2OCT" -> math_HEX2OCT(number, places)
      [] f = "HEX2DEC" -> math_HEX2DEC(number)

---------------------------------------------------------------------------
(* Bounds of the exploration and the arguments explored                    *)

\* values within Delta of a boundary are explored
Delta == 2

\* every string of at most MaxFree characters of InputChars is explored
MaxFree == 2

\* every binary digit string of at most MaxBinLen characters is explored
MaxBinLen == 10

\* short digit strings are also explored zero-filled to LongLen characters
LongLen == 11

\* integer places from -1 up to MaxPlacesArg are explored
MaxPlacesArg == 11

\* patch.py: how many functions are patched, how long _PATCHES grows, and how
\* often the wrappers of one function are entered.
NumFuncs == 2
MaxPatches == 3
MaxCalls == 3

InputChars == { "0", "1", "7", "8", "A", "f", "n", "-", "." }

StringsUpTo(chars, n) == UNION { [1..k -> chars] : k \in 0..n }

ShortStrings == StringsUpTo(InputChars, MaxFree)

BoundaryValues ==
    { Zero, Shl1(9), Shl1(10), Shl1(29), Shl1(30), Shl1(39), Shl1(40),
      BSub(Shl1(30), Shl1(9)), BSub(Shl1(40), Shl1(9)),
      BSub(Shl1(40), Shl1(29)), BAdd(Shl1(30), Shl1(29)),
      [hi |-> 291, lo |-> 284280], [hi |-> 74565, lo |-> 424080],
      [hi |-> 703710, lo |-> 123456] }

Near == { v \in { BAdd(b, BigOf(d)) : b \in BoundaryValues, d \in (-Delta)..Delta } :
            ~BIsNeg(v) }

\* hexadecimal digits in alternating case, as in "Ffe0000000"
MixedCase(s) == [i \in 1..Len(s) |-> IF i % 2 = 1 THEN UpperChar(s[i]) ELSE s[i]]

\* the numerals of the values near a boundary; those of the source bases are
\* explored up to LongLen digits
NearTexts(radix) ==
    LET all   == { DigitsOf(v, radix) : v \in Near }
        plain == { t \in all : radix = 10 \/ Len(t) <= LongLen }
    IN  plain \cup { Upper(t) : t \in plain } \cup { MixedCase(t) : t \in plain }

LongTexts ==
    { zfill(t, LongLen) : t \in { u \in ShortStrings : Range(u) \subseteq permitted_hex } }

BinTexts == StringsUpTo(permitted_bin, MaxBinLen)

SourceRadix(f) ==
    CASE f \in { "DEC2BIN", "DEC2OCT", "DEC2HEX" } -> 10
      [] f \in { "BIN2OCT", "BIN2DEC", "BIN2HEX" } -> 2
      [] f \in { "OCT2BIN", "OCT2DEC", "OCT2HEX" } -> 8
      [] f \in { "HEX2BIN", "HEX2OCT", "HEX2DEC" } -> 16

IsDecimalNumeral(t) ==
    /\ t # << >>
    /\ Range(t) \subseteq DecimalChars
    /\ (t[1] = "0" => Len(t) = 1)

\* the int whose decimal digits are t
IntNumber(t) == Number(FALSE, ParseDigits(t, 10), 0, FALSE)

IntNumbersOf(texts) == { IntNumber(t) : t \in { u \in texts : IsDecimalNumeral(u) } }

\* an int, the float of the same value, and the float half a unit further
\* from zero, of either sign
Variants(x) ==
    { y \in { Number(neg, x.mag, fd[1], fd[2]) :
                neg \in BOOLEAN, fd \in { << 0, FALSE >>, << 0, TRUE >>, << 5, TRUE >> } } :
        y.neg => ~(y.mag = Zero /\ y.frac = 0) }

\* the largest digit of the source base, ten times: the value -1
AllOnes(f) ==
    [i \in 1..10 |-> IF f \in { "DEC2BIN", "DEC2OCT", "DEC2HEX" } THEN "9"
                     ELSE UpperDigits[SourceRadix(f)]]

\* the arguments explored with every places
TinyNumbers(f) ==
    LET texts == StringsUpTo(InputChars, 1) \cup { << "1", "0" >>, << "1", "e", "3" >> }
    IN  { Blank, Boolean(TRUE), Boolean(FALSE), Text(AllOnes(f)) }
          \cup { Text(t) : t \in texts }
          \cup UNION { Variants(x) : x \in IntNumbersOf(texts) }
          \cup { Number(neg, BigOf(4), fr, TRUE) : neg \in BOOLEAN, fr \in { 2, 5, 8 } }
          \cup { Number(neg, BigOf(4), 0, FALSE) : neg \in BOOLEAN }
          \cup { IntNumber(<< "3", "5" >>), IntNumber(<< "2" >>) }

\* the arguments explored with the places of KeyPlaces
CoreNumbers(f) ==
    LET texts == NearTexts(SourceRadix(f))
    IN  { Text(t) : t \in texts }
          \cup { IntNumber(<< "1", "0", "0", "0", "0", "0", "0", "0", "0" >>) }
          \cup (IF SourceRadix(f) = 16
                THEN { Text(<< "F", "f", "e", "0", "0", "0", "0", "0", "0", "0" >>),
                       Text(<< "F", "F", "F", "F", "f", "f", "f", "f", "f", "f" >>) }
                ELSE {})
          \cup (IF SourceRadix(f) = 10
                THEN UNION { Variants(x) : x \in IntNumbersOf(texts) }
                ELSE IntNumbersOf(texts))

\* the arguments explored with places omitted
WideNumbers(f) ==
    LET texts == ShortStrings \cup LongTexts
                    \cup { << "0", ".", "0" >>,
                           << "0", "0", "0", "0", "0", "0", "1", "0", "0", "0", "0" >>,
                           << "n", "o", "n", "s", "e", "n", "s", "e" >> }
                    \cup (IF SourceRadix(f) = 2 THEN BinTexts ELSE {})
    IN  { Text(t) : t \in texts } \cup IntNumbersOf(texts)
          \cup (IF SourceRadix(f) = 10
                THEN { Number(neg, BigOf(m), 0, FALSE) :
                         neg \in BOOLEAN, m \in 1..Shl1(9).lo }
                ELSE {})

PlacesTexts == { << >>, << "5" >>, << "0" >>, << "1", "1" >>, << "1", "0" >>,
                 << "a", "b", "c" >>, << "2", ".", "5" >>, << "-", "1" >> }

IntPlaces(n) == Number(n < 0, BAbs(BigOf(n)), 0, FALSE)

PlacesArgs ==
    { UNUSED, Blank, Boolean(TRUE), Boolean(FALSE) }
      \cup { Text(t) : t \in PlacesTexts }
      \cup { IntPlaces(n) : n \in (-1)..MaxPlacesArg }
      \cup { Number(FALSE, BigOf(n), 5, TRUE) : n \in { 0, 2, 10 } }
      \cup { Number(FALSE, BigOf(3), 0, TRUE) }

KeyPlaces == { UNUSED } \cup { IntPlaces(n) : n \in { 1, 2, 5, 9, 10 } }

NumberArgs(f) == TinyNumbers(f) \cup CoreNumbers(f) \cup WideNumbers(f)

Calls(f) ==
    (TinyNumbers(f) \X PlacesArgs)
       \cup (CoreNumbers(f) \X KeyPlaces)
       \cup (WideNumbers(f) \X { UNUSED })

TakesPlaces == { "DEC2BIN", "DEC2OCT", "DEC2HEX", "BIN2OCT", "BIN2HEX",
                 "OCT2BIN", "OCT2HEX", "HEX2BIN", "HEX2OCT" }

ToDecimal == { "BIN2DEC", "OCT2DEC", "HEX2DEC" }

AllFuncs == TakesPlaces \cup ToDecimal

---------------------------------------------------------------------------
(* The state machine: a caller invokes one function at a time              *)

VARIABLES
    func,       \* the function being called, "none" between calls
    number,     \* its first argument
    places,     \* its second argument (UNUSED when omitted or not taken)
    result,     \* what the call returned or raised
    PATCHES,    \* patch._PATCHES: the patched function of each wrapper
    applied,    \* the __applied__ attribute of each patched function
    calls,      \* how often a wrapper of each function was entered
    started,    \* how often each function's body was entered
    completed,  \* how often each function returned normally
    first,      \* how the first run of each function ended
    todo,       \* the wrappers the call in progress has still to enter
    running     \* the function whose body is executing, 0 when none is

vars == << func, number, places, result >>

pvars == << PATCHES, applied, calls, started, completed, first, todo,
            running >>

\* The patched functions: 1 is patch_WorksheetReader_bind_cells, which the
\* module registers at import; the others are registered by callers.
Funcs == 1..NumFuncs

Init ==
    /\ func = "none"
    /\ number = Blank
    /\ places = UNUSED
    /\ result = None
    /\ PATCHES = << 1 >>
    /\ applied = [f \in Funcs |-> FALSE]
    /\ calls = [f \in Funcs |-> 0]
    /\ started = [f \in Funcs |-> 0]
    /\ completed = [f \in Funcs |-> 0]
    /\ first = [f \in Funcs |-> "none"]
    /\ todo = << >>
    /\ running = 0

\* One action per function: the caller, between calls, invokes it on explored
\* arguments and the state records the arguments and the outcome.

CallDEC2BIN ==
    /\ func = "none"
    /\ \E c \in Calls("DEC2BIN") :
        /\ func' = "DEC2BIN"
        /\ number' = c[1]
        /\ places' = c[2]
        /\ result' = DEC2BIN(c[1], c[2])
    /\ UNCHANGED pvars

CallDEC2OCT ==
    /\ func = "none"
    /\ \E c \in Calls("DEC2OCT") :
        /\ func' = "DEC2OCT"
        /\ number' = c[1]
        /\ places' = c[2]
        /\ result' = DEC2OCT(c[1], c[2])
    /\ UNCHANGED pvars

CallDEC2HEX ==
    /\ func = "none"
    /\ \E c \in Calls("DEC2HEX") :
        /\ func' = "DEC2HEX"
        /\ number' = c[1]
        /\ places' = c[2]
        /\ result' = DEC2HEX(c[1], c[2])
    /\ UNCHANGED pvars

CallBIN2OCT ==
    /\ func = "none"
    /\ \E c \in Calls("BIN2OCT") :
        /\ func' = "BIN2OCT"
        /\ number' = c[1]
        /\ places' = c[2]
        /\ result' = BIN2OCT(c[1], c[2])
    /\ UNCHANGED pvars

CallBIN2DEC ==
    /\ func = "none"
    /\ \E n \in NumberArgs("BIN2DEC") :
        /\ func' = "BIN2DEC"
        /\ number' = n
        /\ places' = UNUSED
        /\ result' = BIN2DEC(n)
    /\ UNCHANGED pvars

CallBIN2HEX ==
    /\ func = "none"
    /\ \E c \in Calls("BIN2HEX") :
        /\ func' = "BIN2HEX"
        /\ number' = c[1]
        /\ places' = c[2]
        /\ result' = BIN2HEX(c[1], c[2])
    /\ UNCHANGED pvars

CallOCT2BIN ==
    /\ func = "none"
    /\ \E c \in Calls("OCT2BIN") :
        /\ func' = "OCT2BIN"
        /\ number' = c[1]
        /\ places' = c[2]
        /\ result' = OCT2BIN(c[1], c[2])
    /\ UNCHANGED pvars

CallOCT2DEC ==
    /\ func = "none"
    /\ \E n \in NumberArgs("OCT2DEC") :
        /\ func' = "OCT2DEC"
        /\ number' = n
        /\ places' = UNUSED
        /\ result' = OCT2DEC(n)
    /\ UNCHANGED pvars

CallOCT2HEX ==
    /\ func = "none"
    /\ \E c \in Calls("OCT2HEX") :
        /\ func' = "OCT2HEX"
        /\ number' = c[1]
        /\ places' = c[2]
        /\ result' = OCT2HEX(c[1], c[2])
    /\ UNCHANGED pvars

CallHEX2BIN ==
    /\ func = "none"
    /\ \E c \in Calls("HEX2BIN") :
        /\ func' = "HEX2BIN"
        /\ number' = c[1]
        /\ places' = c[2]
        /\ result' = HEX2BIN(c[1], c[2])
    /\ UNCHANGED pvars

CallHEX2OCT ==
    /\ func = "none"
    /\ \E c \in Calls("HEX2OCT") :
        /\ func' = "HEX2OCT"
        /\ number' = c[1]
        /\ places' = c[2]
        /\ result' = HEX2OCT(c[1], c[2])
    /\ UNCHANGED pvars

CallHEX2DEC ==
    /\ func = "none"
    /\ \E n \in NumberArgs("HEX2DEC") :
        /\ func' = "HEX2DEC"
        /\ number' = n
        /\ places' = UNUSED
        /\ result' = HEX2DEC(n)
    /\ UNCHANGED pvars

\* the call is over; the functions keep no state between calls
Return ==
    /\ func # "none"
    /\ func' = "none"
    /\ number' = Blank
    /\ places' = UNUSED
    /\ result' = None
    /\ UNCHANGED pvars

Next ==
    \/ CallDEC2BIN \/ CallDEC2OCT \/ CallDEC2HEX
    \/ CallBIN2OCT \/ CallBIN2DEC \/ CallBIN2HEX
    \/ CallOCT2BIN \/ CallOCT2DEC \/ CallOCT2HEX
    \/ CallHEX2BIN \/ CallHEX2OCT \/ CallHEX2DEC
    \/ Return

Spec == Init /\ [][Next]_<< vars, pvars >>

---------------------------------------------------------------------------
(* patch.py: functions registered with patch() and applied on demand       *)

Idle == todo = << >> /\ running = 0

\* Every wrapper the call is about to enter may still be counted.
Countable(ws) == \A i \in 1..Len(ws) : calls[ws[i]] < MaxCalls

\* patch(func): build the wrapper run_once and append it to _PATCHES.
Patch ==
    /\ Idle
    /\ Len(PATCHES) < MaxPatches
    /\ \E f \in Funcs : PATCHES' = Append(PATCHES, f)
    /\ UNCHANGED << applied, calls, started, completed, first, todo,
                    running >>
    /\ UNCHANGED vars

\* A direct call of a wrapper that patch() returned.
CallWrapper ==
    /\ Idle
    /\ \E i \in 1..Len(PATCHES) :
        /\ Countable(<< PATCHES[i] >>)
        /\ todo' = << PATCHES[i] >>
    /\ UNCHANGED << PATCHES, applied, calls, started, completed, first,
                    running >>
    /\ UNCHANGED vars

\* apply_all(): call every wrapper of _PATCHES in order.
apply_all ==
    /\ Idle
    /\ Countable(PATCHES)
    /\ todo' = PATCHES
    /\ UNCHANGED << PATCHES, applied, calls, started, completed, first,
                    running >>
    /\ UNCHANGED vars

\* A variant of run_once without the test of __applied__.
run_once_NoAppliedTest ==
    /\ todo # << >>
    /\ running = 0
    /\ LET f == Head(todo) IN
        /\ calls' = [calls EXCEPT ![f] = @ + 1]
        /\ running' = f
        /\ started' = [started EXCEPT ![f] = @ + 1]
        /\ UNCHANGED todo
    /\ UNCHANGED << PATCHES, applied, completed, first >>
    /\ UNCHANGED vars

\* run_once up to the call of func: return at once when the function has the
\* __applied__ attribute set, enter its body otherwise.
run_once ==
    /\ todo # << >>
    /\ running = 0
    /\ LET f == Head(todo) IN
        /\ calls' = [calls EXCEPT ![f] = @ + 1]
        /\ IF applied[f]
           THEN /\ todo' = Tail(todo)
                /\ UNCHANGED << started, running >>
           ELSE /\ running' = f
                /\ started' = [started EXCEPT ![f] = @ + 1]
                /\ UNCHANGED todo
    /\ UNCHANGED << PATCHES, applied, completed, first >>
    /\ UNCHANGED vars

\* func() returns: run_once sets func.__applied__ and returns to its caller.
FuncReturns ==
    /\ running # 0
    /\ applied' = [applied EXCEPT ![running] = TRUE]
    /\ completed' = [completed EXCEPT ![running] = @ + 1]
    /\ first' = [first EXCEPT ![running] = IF @ = "none" THEN "returned"
                                                          ELSE @]
    /\ todo' = Tail(todo)
    /\ running' = 0
    /\ UNCHANGED << PATCHES, calls, started >>
    /\ UNCHANGED vars

\* func() raises: the exception leaves run_once before the assignment, and
\* leaves the loop of apply_all when that is the caller.
FuncRaises ==
    /\ running # 0
    /\ first' = [first EXCEPT ![running] = IF @ = "none" THEN "raised"
                                                          ELSE @]
    /\ todo' = << >>
    /\ running' = 0
    /\ UNCHANGED << PATCHES, applied, calls, started, completed >>
    /\ UNCHANGED vars

PatchNext ==
    \/ Patch \/ CallWrapper \/ apply_all
    \/ run_once \/ FuncReturns \/ FuncRaises

PatchSpec == Init /\ [][PatchNext]_<< vars, pvars >>

---------------------------------------------------------------------------
(* Vocabulary of the properties                                            *)

DecFuncs == { "DEC2BIN", "DEC2OCT", "DEC2HEX" }

\* the bit width W of a base: 10, 30, 40 for binary, octal, hexadecimal
WidthOf(radix) == CASE radix = 2 -> 10 [] radix = 8 -> 30 [] radix = 16 -> 40

TargetRadix(f) ==
    CASE f \in { "DEC2BIN", "OCT2BIN", "HEX2BIN" } -> 2
      [] f \in { "DEC2OCT", "BIN2OCT", "HEX2OCT" } -> 8
      [] f \in { "DEC2HEX", "BIN2HEX", "OCT2HEX" } -> 16
      [] f \in ToDecimal -> 10

\* the digits of a base as the functions print them
DigitsOfBase(radix) == { UpperDigits[i] : i \in 1..radix }

\* the digits of a base as the functions read them
AlphabetOf(radix) ==
    IF radix = 16 THEN permitted_hex ELSE DigitsOfBase(radix)

Called == func # "none"

Omitted == places = UNUSED

Failed(kind) == result.kind = "Error" /\ result.error = kind

Returned(t) == result.kind = "Text" /\ result.text = t

ReturnedInt(n) == result.kind = "Int" /\ result.int = n

SameOutcome(a, b) ==
    /\ a.kind = b.kind
    /\ a.kind = "Error" => a.error = b.error
    /\ a.kind = "Text" => a.text = b.text
    /\ a.kind = "Int" => a.int = b.int

\* x is a Text of 1..maxlen digits of the base without a leading zero
IsNumeralText(x, radix, maxlen) ==
    /\ x.kind = "Text"
    /\ Len(x.text) \in 1..maxlen
    /\ Range(x.text) \subseteq AlphabetOf(radix)
    /\ (x.text[1] = "0" => Len(x.text) = 1)

\* x is a Number with an integral value
IsIntegral(x) == x.kind = "Number" /\ x.frac = 0

\* the value of an integral Number
ValueOf(x) == IF x.neg THEN BSub(Zero, x.mag) ELSE x.mag

\* -2^(W-1) <= v <= 2^(W-1) - 1
FitsWidth(v, w) ==
    /\ ~BLt(v, BSub(Zero, Shl1(w - 1)))
    /\ BLt(v, Shl1(w - 1))

\* the result, handed to function g with places omitted, returns t
BackThrough(g, t) ==
    /\ ~IsErr(result)
    /\ LET back == Apply(g, AsArg(result), UNUSED)
       IN  back.kind = "Text" /\ back.text = t

\* t is the numeral of v in the base: its digits, most significant first,
\* uppercase, without sign, prefix or leading zero
IsNumeralOf(t, v, radix) ==
    /\ t # << >>
    /\ Range(t) \subseteq DigitsOfBase(radix)
    /\ (t[1] = "0" => Len(t) = 1)
    /\ ParseDigits(t, radix) = v

---------------------------------------------------------------------------
(* C1 - C10                                                                *)

\* C1: for every binary digit string b of at most 10 characters without a
\* leading zero (or b = "0"), with places omitted, OCT2BIN(BIN2OCT(b)) = b,
\* HEX2BIN(BIN2HEX(b)) = b and DEC2BIN(BIN2DEC(b)) = b.
C1_BinaryRoundTrip ==
    (Omitted /\ IsNumeralText(number, 2, 10)) =>
        /\ func = "BIN2OCT" => BackThrough("OCT2BIN", number.text)
        /\ func = "BIN2HEX" => BackThrough("HEX2BIN", number.text)
        /\ func = "BIN2DEC" => BackThrough("DEC2BIN", number.text)

C1_Witness ==
    /\ func = "BIN2OCT"
    /\ Omitted
    /\ number = Text(<< "1", "0", "0", "0", "0", "0", "0", "0", "0", "0" >>)
    /\ Returned(<< "7", "7", "7", "7", "7", "7", "7", "0", "0", "0" >>)

\* C2: for every octal digit string o of at most 10 characters without a
\* leading zero (or o = "0"), with places omitted, DEC2OCT(OCT2DEC(o)) = o and
\* HEX2OCT(OCT2HEX(o)) = o.
C2_OctalRoundTrip ==
    (Omitted /\ IsNumeralText(number, 8, 10)) =>
        /\ func = "OCT2DEC" => BackThrough("DEC2OCT", number.text)
        /\ func = "OCT2HEX" => BackThrough("HEX2OCT", number.text)

C2_Witness ==
    /\ func = "OCT2HEX"
    /\ Omitted
    /\ number = Text(<< "4", "0", "0", "0", "0", "0", "0", "0", "0", "0" >>)
    /\ Returned(<< "F", "F", "E", "0", "0", "0", "0", "0", "0", "0" >>)

\* C3: for every integer d in [-2^39, 2^39 - 1], HEX2DEC(DEC2HEX(d)) = d.
C3_DecimalHexRoundTrip ==
    (func = "DEC2HEX" /\ Omitted /\ IsIntegral(number)
        /\ FitsWidth(ValueOf(number), 40)) =>
        /\ ~IsErr(result)
        /\ LET back == HEX2DEC(AsArg(result))
           IN  back.kind = "Int" /\ back.int = ValueOf(number)

C3_Witness ==
    /\ func = "DEC2HEX"
    /\ Omitted
    /\ number = Number(TRUE, Shl1(39), 0, FALSE)
    /\ Returned(<< "8", "0", "0", "0", "0", "0", "0", "0", "0", "0" >>)

\* the character c, n times
Rep(c, n) == [i \in 1..n |-> c]

\* C4: DEC2BIN, DEC2OCT and DEC2HEX with places omitted and an integer
\* number v return a string exactly when -2^(W-1) <= v <= 2^(W-1) - 1 for
\* W = 10, 30, 40 and fail with Num otherwise; DEC2BIN(-512) = "1000000000",
\* DEC2BIN(511) = "111111111", DEC2OCT(2^29 - 1) = "3777777777",
\* DEC2OCT(-2^29) = "4000000000", DEC2HEX(-2^39) = "8000000000".
C4_DecimalRange ==
    (func \in DecFuncs /\ Omitted /\ IsIntegral(number)) =>
        LET v == ValueOf(number)
            w == WidthOf(TargetRadix(func))
        IN  /\ IF FitsWidth(v, w) THEN result.kind = "Text" ELSE Failed("Num")
            /\ (func = "DEC2BIN" /\ v = BigOf(-512)) =>
                    Returned(<< "1" >> \o Rep("0", 9))
            /\ (func = "DEC2BIN" /\ v = BigOf(511)) => Returned(Rep("1", 9))
            /\ (func = "DEC2BIN" /\ v \in { BigOf(-513), BigOf(512) }) =>
                    Failed("Num")
            /\ (func = "DEC2OCT" /\ v = BigOf(536870911)) =>
                    Returned(<< "3" >> \o Rep("7", 9))
            /\ (func = "DEC2OCT" /\ v = BigOf(-536870912)) =>
                    Returned(<< "4" >> \o Rep("0", 9))
            /\ (func = "DEC2OCT" /\ v = BigOf(536870912)) => Failed("Num")
            /\ (func = "DEC2HEX" /\ v = BSub(Zero, Shl1(39))) =>
                    Returned(<< "8" >> \o Rep("0", 9))
            /\ (func = "DEC2HEX" /\ v = Shl1(39)) => Failed("Num")

C4_Witness ==
    /\ func = "DEC2BIN"
    /\ Omitted
    /\ number = Number(TRUE, BigOf(513), 0, FALSE)
    /\ Failed("Num")

\* C5: for every in-range integer v and places omitted, DEC2BIN, DEC2OCT and
\* DEC2HEX return the base-2/8/16 numeral of v when v >= 0 and of v + 2^W
\* when v < 0: digits only, uppercase, no sign, no prefix, no leading zero;
\* DEC2BIN(-2) = "1111111110", DEC2OCT(-1) = "7777777777",
\* DEC2HEX(-1) = "FFFFFFFFFF".
C5_DecimalEncoding ==
    (func \in DecFuncs /\ Omitted /\ IsIntegral(number)
        /\ FitsWidth(ValueOf(number), WidthOf(TargetRadix(func)))) =>
        LET v == ValueOf(number)
            w == WidthOf(TargetRadix(func))
            u == IF BLt(v, Zero) THEN BAdd(v, Shl1(w)) ELSE v
        IN  /\ result.kind = "Text"
            /\ IsNumeralOf(result.text, u, TargetRadix(func))
            /\ (func = "DEC2BIN" /\ v = BigOf(-2)) =>
                    Returned(Rep("1", 9) \o << "0" >>)
            /\ (func = "DEC2OCT" /\ v = BigOf(-1)) => Returned(Rep("7", 10))
            /\ (func = "DEC2HEX" /\ v = BigOf(-1)) => Returned(Rep("F", 10))

C5_Witness ==
    /\ func = "DEC2HEX"
    /\ Omitted
    /\ number = Number(TRUE, BigOf(1), 0, FALSE)
    /\ Returned(Rep("F", 10))

\* the digit string a *2DEC function reads: a Text verbatim, a non-negative
\* integral Number as its decimal digits
DigitString(x) == IF x.kind = "Text" THEN x.text ELSE DigitsOf(x.mag, 10)

\* C6: BIN2DEC, OCT2DEC and HEX2DEC, given 1 to 10 digits of the source base
\* (a Number being read as its decimal digit string), return raw when
\* raw < 2^(W-1) and raw - 2^W otherwise, raw the unsigned value of the
\* digits and W = 10, 30, 40; the result lies in [-2^(W-1), 2^(W-1) - 1];
\* BIN2DEC(1111111111) = -1, BIN2DEC(1000000000) = -512,
\* OCT2DEC(4000000000) = -536870912, HEX2DEC(8000000000) = -549755813888.
C6_ToDecimalDecoding ==
    (func \in ToDecimal
        /\ (number.kind = "Text" \/ (IsIntegral(number) /\ ~number.neg))
        /\ Len(DigitString(number)) \in 1..10
        /\ Range(DigitString(number)) \subseteq AlphabetOf(SourceRadix(func))) =>
        LET w   == WidthOf(SourceRadix(func))
            raw == ParseDigits(DigitString(number), SourceRadix(func))
        IN  /\ ReturnedInt(IF BLt(raw, Shl1(w - 1)) THEN raw
                                                    ELSE BSub(raw, Shl1(w)))
            /\ FitsWidth(result.int, w)
            /\ (func = "BIN2DEC" /\ number = IntNumber(Rep("1", 10))) =>
                    ReturnedInt(BigOf(-1))
            /\ (func = "BIN2DEC" /\ number = IntNumber(<< "1" >> \o Rep("0", 9))) =>
                    ReturnedInt(BigOf(-512))
            /\ (func = "OCT2DEC" /\ number = IntNumber(<< "4" >> \o Rep("0", 9))) =>
                    ReturnedInt(BigOf(-536870912))
            /\ (func = "HEX2DEC" /\ number = IntNumber(<< "8" >> \o Rep("0", 9))) =>
                    ReturnedInt(BSub(Zero, Shl1(39)))

C6_Witness ==
    /\ func = "HEX2DEC"
    /\ number = IntNumber(<< "8" >> \o Rep("0", 9))
    /\ ReturnedInt(BSub(Zero, Shl1(39)))

\* a Number that is an integer in 1..10
IsValidIntegerPlaces(x) ==
    /\ IsIntegral(x)
    /\ ~BLt(ValueOf(x), BigOf(1))
    /\ ~BLt(BigOf(10), ValueOf(x))

\* C7: in each of the twelve functions a Boolean number with places omitted
\* fails with a Value error; in the nine functions that take places a
\* Boolean number also fails with Value when places is a valid integer or a
\* Boolean, and a Boolean places fails with Value for any number.
C7_BooleansRejected ==
    Called =>
        /\ (number.kind = "Boolean"
              /\ (Omitted \/ places.kind = "Boolean" \/ IsValidIntegerPlaces(places)))
              => Failed("Value")
        /\ places.kind = "Boolean" => Failed("Value")

C7_Witness ==
    /\ func = "BIN2HEX"
    /\ number = IntNumber(<< "1", "0" >>)
    /\ places = Boolean(TRUE)
    /\ Failed("Value")

\* the error a supplied places is rejected with, None when places is omitted
\* or valid: a Boolean and a Text that is no integer give Value, an integer
\* (a Number truncated) outside 1..10 gives Num
PlacesError(x) ==
    IF x = UNUSED THEN None
    ELSE IF x.kind = "Boolean" THEN ValueExcelError
    ELSE IF x.kind = "Text" /\ ~IsIntText(x.text) THEN ValueExcelError
    ELSE IF BLt(IntOf(x).int, BigOf(1)) \/ BLt(BigOf(10), IntOf(x).int)
         THEN NumExcelError
         ELSE None

\* the outcome of the same call with places omitted: what the checks of
\* number alone decide
NumberAlone == Apply(func, number, UNUSED)

\* the only failure left once places and number are valid: Num, for a
\* result longer than the places asked for
OnlyPaddingFails ==
    IsErr(result) =>
        /\ Failed("Num")
        /\ ~Omitted
        /\ Len(NumberAlone.text) > IntOf(places).int.lo

\* C8, as stated: the first violated precondition is reported in the order
\* boolean rejection, presence/coercion, digit alphabet, numeric range,
\* places validation, padding; a Boolean number fails with Value before any
\* other check.
C8_BooleanBeforeAll ==
    Called =>
        IF number.kind = "Boolean" \/ places.kind = "Boolean"
        THEN Failed("Value")
        ELSE IF IsErr(NumberAlone) THEN SameOutcome(result, NumberAlone)
        ELSE IF PlacesError(places) # None
             THEN SameOutcome(result, PlacesError(places))
             ELSE OnlyPaddingFails

\* C8, amended: the first violated precondition is reported in the order
\* Boolean places, places coercion and range, Boolean number,
\* presence/coercion of number, digit alphabet, numeric range, padding.  An
\* invalid places is reported whatever the number is; a Boolean number fails
\* with Value once places is omitted or valid.
C8_PlacesBeforeNumber ==
    Called =>
        IF PlacesError(places) # None
        THEN SameOutcome(result, PlacesError(places))
        ELSE IF number.kind = "Boolean" THEN Failed("Value")
        ELSE IF IsErr(NumberAlone) THEN SameOutcome(result, NumberAlone)
        ELSE OnlyPaddingFails

C8_Witness ==
    /\ func = "DEC2BIN"
    /\ number = Boolean(TRUE)
    /\ places = IntPlaces(0)
    /\ Failed("Num")

\* C9: in each of the nine functions that take places, with a Boolean
\* number, places Blank, 0 or 11 gives a Num error and the text "abc" gives a
\* Value error: the invalid places decides before number is examined.
C9_InvalidPlacesFirst ==
    (func \in TakesPlaces /\ number.kind = "Boolean") =>
        /\ places \in { Blank, IntPlaces(0), IntPlaces(11) } => Failed("Num")
        /\ places = Text(<< "a", "b", "c" >>) => Failed("Value")

C9_Witness ==
    /\ func = "HEX2OCT"
    /\ number = Boolean(FALSE)
    /\ places = Blank
    /\ Failed("Num")

\* C10: in each of the nine functions that take places, an integer places
\* outside 1..10 fails with Num whatever the number is, and an integer places
\* in 1..10 passes: the call then fails as it does with places omitted, or
\* returns a string, or fails with Num because the string is longer than
\* places.
C10_PlacesRange ==
    (func \in TakesPlaces /\ IsIntegral(places)) =>
        IF BLt(ValueOf(places), BigOf(1)) \/ BLt(BigOf(10), ValueOf(places))
        THEN Failed("Num")
        ELSE IF IsErr(NumberAlone) THEN SameOutcome(result, NumberAlone)
        ELSE \/ result.kind = "Text"
             \/ Failed("Num") /\ Len(NumberAlone.text) > ValueOf(places).lo

C10_Witness ==
    /\ func = "BIN2HEX"
    /\ number = Text(Rep("1", 10))
    /\ places = IntPlaces(11)
    /\ Failed("Num")

---------------------------------------------------------------------------
(* C11 - C20                                                               *)

\* t is a digit string of the base as the functions print it, with no
\* padding: no leading zero unless it is "0"
IsUnpadded(t, radix) ==
    /\ t # << >>
    /\ Range(t) \subseteq DigitsOfBase(radix)
    /\ (t[1] = "0" => Len(t) = 1)

\* C11: omitting places and supplying a Blank places differ.  In each of the
\* nine functions that take places, a call with places omitted that returns
\* a string returns the unpadded digit string, and a call with a Blank places fails
\* with Num and returns nothing; DEC2BIN(35) = "100011", DEC2BIN(35, Blank)
\* is a Num error.
C11_UnusedIsNotBlank ==
    func \in TakesPlaces =>
        /\ (Omitted /\ result.kind = "Text") =>
                IsUnpadded(result.text, TargetRadix(func))
        /\ places = Blank => Failed("Num")
        /\ (func = "DEC2BIN" /\ number = IntNumber(<< "3", "5" >>) /\ Omitted) =>
                Returned(<< "1", "0", "0", "0", "1", "1" >>)

C11_Witness ==
    /\ func = "DEC2BIN"
    /\ number = IntNumber(<< "3", "5" >>)
    /\ places = Blank
    /\ Failed("Num")

\* the Number 0
NumberZero == Number(FALSE, Zero, 0, FALSE)

\* C12: in each of the nine functions that take places, called with number
\* 0, a Text places is read as a base-10 integer and validated like a
\* Number: a text of decimal digits gives what the integer it denotes gives,
\* "5" gives "00000", "0" and "11" give Num, and "" and "abc" give Value.
C12_TextPlaces ==
    (func \in TakesPlaces /\ number = NumberZero /\ places.kind = "Text") =>
        LET t == places.text IN
        /\ (t # << >> /\ Range(t) \subseteq DecimalChars) =>
                SameOutcome(result, Apply(func, number,
                                Number(FALSE, ParseDigits(t, 10), 0, FALSE)))
        /\ t = << "5" >> => Returned(Rep("0", 5))
        /\ t \in { << "0" >>, << "1", "1" >> } => Failed("Num")
        /\ t \in { << >>, << "a", "b", "c" >> } => Failed("Value")

C12_Witness ==
    /\ func = "OCT2HEX"
    /\ number = NumberZero
    /\ places = Text(<< "5" >>)
    /\ Returned(Rep("0", 5))

\* a Number with a fractional part
IsFractional(x) == x.kind = "Number" /\ x.frac # 0

\* the integer a Number truncates to, as a Number
Truncated(x) == Number(x.neg, x.mag, 0, FALSE)

\* C13, as stated: in each of the nine functions that take places, a Number
\* places that is not integral (2.5) fails with a Num error.
C13_FractionalPlacesRejected ==
    (func \in TakesPlaces /\ IsFractional(places)) => Failed("Num")

\* C13, amended: a Number places that is not integral is truncated toward
\* zero and then validated as that integer: 2.5 acts as 2 and 10.5 as 10
\* (DEC2BIN(0, 2.5) = "00"), and 0.5 fails with Num as 0 does.
C13_FractionalPlacesTruncated ==
    (func \in TakesPlaces /\ IsFractional(places)) =>
        /\ SameOutcome(result, Apply(func, number, Truncated(places)))
        /\ places.mag = Zero => Failed("Num")
        /\ (number = NumberZero /\ ~places.neg /\ places.mag \in { BigOf(2), BigOf(10) }) =>
                Returned(Rep("0", places.mag.lo))

C13_Witness ==
    /\ func = "DEC2BIN"
    /\ number = NumberZero
    /\ places = Number(FALSE, BigOf(2), 5, TRUE)
    /\ Returned(<< "0", "0" >>)

\* the *2DEC function that reads the source base of f
DecoderOf(f) ==
    CASE SourceRadix(f) = 2  -> "BIN2DEC"
      [] SourceRadix(f) = 8  -> "OCT2DEC"
      [] SourceRadix(f) = 16 -> "HEX2DEC"

\* the signed value the number denotes to function f: the integer itself
\* for DEC2*, what the *2DEC function of the source base decodes otherwise
DenotedValue(f, x) ==
    IF f \in DecFuncs THEN IntOf(x) ELSE Apply(DecoderOf(f), x, UNUSED)

\* the call converts a negative value
ConvertsNegative ==
    /\ NumberAlone.kind = "Text"
    /\ DenotedValue(func, number).kind = "Int"
    /\ BIsNeg(DenotedValue(func, number).int)

\* the call converts a non-negative value
ConvertsNonNegative == NumberAlone.kind = "Text" /\ ~ConvertsNegative

\* t with '0' put in front until it has n characters
LeftPadded(t, n) == Rep("0", n - Len(t)) \o t

\* C14: in each of the nine functions that take places, when the converted
\* value is non-negative and places is an integer p in 1..10, the result is
\* the unpadded digit string left-padded with '0' to exactly p characters if
\* that string has at most p characters, and a Num error otherwise;
\* DEC2BIN(0, 2) = "00", DEC2BIN(2, 1) fails, BIN2HEX(100000000, 5) = "00100".
C14_PaddingNonNegative ==
    (func \in TakesPlaces /\ IsValidIntegerPlaces(places) /\ ConvertsNonNegative) =>
        LET p == ValueOf(places).lo
            t == NumberAlone.text
        IN  /\ IF Len(t) <= p THEN Returned(LeftPadded(t, p)) ELSE Failed("Num")
            /\ result.kind = "Text" => Len(result.text) = p
            /\ (func = "DEC2BIN" /\ number = NumberZero /\ p = 2) =>
                    Returned(<< "0", "0" >>)
            /\ (func = "DEC2BIN" /\ number = IntNumber(<< "2" >>) /\ p = 1) =>
                    Failed("Num")
            /\ (func = "BIN2HEX" /\ number = IntNumber(<< "1" >> \o Rep("0", 8))
                    /\ p = 5) => Returned(<< "0", "0", "1", "0", "0" >>)

C14_Witness ==
    /\ func = "BIN2HEX"
    /\ number = IntNumber(<< "1" >> \o Rep("0", 8))
    /\ places = IntPlaces(5)
    /\ Returned(<< "0", "0", "1", "0", "0" >>)

\* C15: in each of the nine functions that take places, when the converted
\* value is negative the result has exactly 10 digits, and with every
\* integer places in 1..10 the call returns the string it returns with
\* places omitted; DEC2BIN(-1, 1) = "1111111111",
\* BIN2OCT(1000000000, 1) = "7777777000", OCT2HEX(4000000000, 1) = "FFE0000000".
C15_NegativeIgnoresPlaces ==
    (func \in TakesPlaces /\ (Omitted \/ IsValidIntegerPlaces(places))
        /\ ConvertsNegative) =>
        /\ result.kind = "Text"
        /\ Len(result.text) = 10
        /\ result.text = NumberAlone.text
        /\ (func = "DEC2BIN" /\ number = Number(TRUE, BigOf(1), 0, FALSE)) =>
                Returned(Rep("1", 10))
        /\ (func = "BIN2OCT" /\ number = IntNumber(<< "1" >> \o Rep("0", 9))) =>
                Returned(Rep("7", 7) \o Rep("0", 3))
        /\ (func = "OCT2HEX" /\ number = IntNumber(<< "4" >> \o Rep("0", 9))) =>
                Returned(<< "F", "F", "E" >> \o Rep("0", 7))

C15_Witness ==
    /\ func = "BIN2OCT"
    /\ number = IntNumber(<< "1" >> \o Rep("0", 9))
    /\ places = IntPlaces(1)
    /\ Returned(Rep("7", 7) \o Rep("0", 3))

\* C16: in all twelve functions a Blank number behaves as zero: with places
\* omitted the result is "0" (the integer 0 for BIN2DEC, OCT2DEC, HEX2DEC),
\* with an integer places p in 1..10 it is a string of p zeros, and with any
\* places the outcome is that of the number 0.
C16_BlankIsZero ==
    (Called /\ number = Blank) =>
        /\ SameOutcome(result, Apply(func, NumberZero, places))
        /\ Omitted => IF func \in ToDecimal THEN ReturnedInt(Zero)
                                            ELSE Returned(<< "0" >>)
        /\ IsValidIntegerPlaces(places) => Returned(Rep("0", ValueOf(places).lo))

C16_Witness ==
    /\ func = "HEX2BIN"
    /\ number = Blank
    /\ places = IntPlaces(5)
    /\ Returned(Rep("0", 5))

\* the nine functions that read a digit string of base 2, 8 or 16
FromBaseFuncs == AllFuncs \ DecFuncs

\* C17: in the nine BIN2*, OCT2* and HEX2* functions (places omitted or
\* valid), a Number with a non-zero fractional part (0.5, 1.5) fails with
\* Num, and a float with an integral value is accepted and treated as that
\* integer: 0.0 gives "0" (0 for the *2DEC functions).
C17_FractionalNumberRejected ==
    (func \in FromBaseFuncs /\ number.kind = "Number"
        /\ PlacesError(places) = None) =>
        /\ number.frac # 0 => Failed("Num")
        /\ (number.frac = 0 /\ number.is_decimal) =>
                SameOutcome(result, Apply(func, Truncated(number), places))
        /\ (number = Number(FALSE, Zero, 0, TRUE) /\ Omitted) =>
                IF func \in ToDecimal THEN ReturnedInt(Zero)
                                      ELSE Returned(<< "0" >>)
        /\ (number = Number(FALSE, BigOf(1), 0, TRUE) /\ Omitted) =>
                IF func \in ToDecimal THEN ReturnedInt(BigOf(1))
                                      ELSE Returned(<< "1" >>)

C17_Witness ==
    /\ func = "HEX2OCT"
    /\ number = Number(FALSE, BigOf(1), 5, TRUE)
    /\ Omitted
    /\ Failed("Num")

\* C18: DEC2BIN, DEC2OCT and DEC2HEX truncate a Number that is not integral
\* toward zero before the range check and the encoding: every x with
\* 4 <= x < 5 converts like 4 and every x with -5 < x <= -4 like -4;
\* DEC2BIN(4.8) = "100", DEC2BIN(-4.8) = "1111111100",
\* DEC2OCT(-4.5) = "7777777774", DEC2HEX(-4.2) = "FFFFFFFFFC".
C18_DecimalTruncation ==
    (func \in DecFuncs /\ IsFractional(number)) =>
        /\ SameOutcome(result, Apply(func, Truncated(number), places))
        /\ (Omitted /\ number.mag = BigOf(4)) =>
              /\ (func = "DEC2BIN" /\ ~number.neg) => Returned(<< "1", "0", "0" >>)
              /\ (func = "DEC2OCT" /\ ~number.neg) => Returned(<< "4" >>)
              /\ (func = "DEC2HEX" /\ ~number.neg) => Returned(<< "4" >>)
              /\ (func = "DEC2BIN" /\ number.neg) =>
                    Returned(Rep("1", 8) \o << "0", "0" >>)
              /\ (func = "DEC2OCT" /\ number.neg) =>
                    Returned(Rep("7", 9) \o << "4" >>)
              /\ (func = "DEC2HEX" /\ number.neg) =>
                    Returned(Rep("F", 9) \o << "C" >>)

C18_Witness ==
    /\ func = "DEC2BIN"
    /\ number = Number(TRUE, BigOf(4), 8, TRUE)
    /\ Omitted
    /\ Returned(Rep("1", 8) \o << "0", "0" >>)

\* the characters the BIN2*, OCT2* and HEX2* functions read for a number
\* that is a Text or an integral Number: the text itself, or the decimal
\* digits of the integer behind its minus sign
CharsRead(x) ==
    IF x.kind = "Text" THEN x.text
    ELSE (IF x.neg /\ x.mag # Zero THEN << "-" >> ELSE << >>) \o DigitsOf(x.mag, 10)

\* text no reading takes for a number: it has no decimal digit, or a
\* character that is no digit, sign, point or exponent mark
IsNoNumber(t) ==
    \/ Range(t) \cap DecimalChars = {}
    \/ Range(t) \ (DecimalChars \cup { "-", "+", ".", "e", "E" }) # {}

\* C19: with places omitted or valid, the nine BIN2*, OCT2* and HEX2*
\* functions fail with Num when a character of the number lies outside the
\* source alphabet (0-1, 0-7, 0-9 A-F a-f): the minus sign of a negative
\* Number, a decimal point ("0.0"), arbitrary text ("nonsense"); DEC2BIN,
\* DEC2OCT and DEC2HEX fail with Value on a Text that is no number.
C19_DigitAlphabet ==
    (Called /\ PlacesError(places) = None) =>
        /\ (func \in FromBaseFuncs
              /\ (number.kind = "Text" \/ IsIntegral(number))
              /\ Range(CharsRead(number)) \ AlphabetOf(SourceRadix(func)) # {})
              => Failed("Num")
        /\ (func \in DecFuncs /\ number.kind = "Text" /\ IsNoNumber(number.text))
              => Failed("Value")

C19_Witness ==
    /\ func = "OCT2BIN"
    /\ number = Text(<< "8" >>)
    /\ places = IntPlaces(5)
    /\ Failed("Num")

\* C20: an empty Text number gives zero in each of the nine BIN2*, OCT2* and
\* HEX2* functions ("0", and 0 for BIN2DEC, OCT2DEC, HEX2DEC) and a Value
\* error in DEC2BIN, DEC2OCT and DEC2HEX.
C20_EmptyTextIsZero ==
    (Called /\ number = Text(<< >>) /\ Omitted) =>
        IF func \in DecFuncs THEN Failed("Value")
        ELSE IF func \in ToDecimal THEN ReturnedInt(Zero)
        ELSE Returned(<< "0" >>)

\* BIN2OCT("") ends in the ValueError of int("", 2)
C20_Witness ==
    /\ func = "BIN2OCT"
    /\ number = Text(<< >>)
    /\ Omitted
    /\ result = PyValueError

---------------------------------------------------------------------------
(* C21 - C30                                                               *)

\* C21: in each of the nine BIN2*, OCT2* and HEX2* functions a Text number
\* of more than 10 characters fails with Num, even when every character is
\* a valid digit and the value is small ("00000000000", "00000000010",
\* "00000010000").
C21_LongTextRejected ==
    (func \in FromBaseFuncs /\ Omitted /\ number.kind = "Text"
        /\ Len(number.text) > 10) => Failed("Num")

\* BIN2OCT("00000000000") returns "0"
C21_Witness ==
    /\ func = "BIN2OCT"
    /\ Omitted
    /\ number = Text(Rep("0", 11))
    /\ Returned(<< "0" >>)

\* the number is a digit string of the source base of func: a Text or a
\* non-negative integral Number whose characters are all digits of the base
IsSourceDigits ==
    /\ func \in FromBaseFuncs
    /\ (number.kind = "Text" \/ IsIntegral(number))
    /\ CharsRead(number) # << >>
    /\ Range(CharsRead(number)) \subseteq AlphabetOf(SourceRadix(func))

\* the unsigned value of the digit string in the source base
RawValue == ParseDigits(CharsRead(number), SourceRadix(func))

\* C22: in each of the nine BIN2*, OCT2* and HEX2* functions an input whose
\* unsigned value in the source base is at least 2^W (W = 10, 30, 40) fails
\* with Num: BIN2OCT(10000000000), BIN2HEX("11000000000"),
\* OCT2DEC(10000000000), OCT2HEX(10000000000), OCT2HEX(14000000000) and
\* HEX2DEC(10000000000).
C22_RawValueBelowWidth ==
    (IsSourceDigits /\ Omitted
        /\ ~BLt(RawValue, Shl1(WidthOf(SourceRadix(func))))) => Failed("Num")

\* OCT2HEX(14000000000) returns "20000000"
C22_Witness ==
    /\ func = "OCT2HEX"
    /\ Omitted
    /\ number = IntNumber(<< "1", "4" >> \o Rep("0", 9))
    /\ Returned(<< "2" >> \o Rep("0", 7))

\* the signed value of the digit string: raw below 2^(W-1), raw - 2^W from
\* there on, W the width of the source base
SignedValue ==
    LET w == WidthOf(SourceRadix(func))
    IN  IF BLt(RawValue, Shl1(w - 1)) THEN RawValue ELSE BSub(RawValue, Shl1(w))

\* C23: for valid inputs of at most 10 source digits and places omitted,
\* OCT2BIN and HEX2BIN return a string iff the decoded signed value is in
\* [-512, 511] and HEX2OCT iff it is in [-2^29, 2^29 - 1], and fail with Num
\* otherwise; OCT2BIN(777) = "111111111", OCT2BIN(1000) fails,
\* HEX2BIN("FFFFFFFE00") = "1000000000", HEX2BIN("FFFFFFFDFF") fails,
\* HEX2OCT("1FFFFFFF") = "3777777777", HEX2OCT(20000000) fails.
C23_NarrowingRange ==
    (func \in { "OCT2BIN", "HEX2BIN", "HEX2OCT" } /\ Omitted /\ IsSourceDigits
        /\ Len(CharsRead(number)) <= 10) =>
        /\ IF FitsWidth(SignedValue, WidthOf(TargetRadix(func)))
           THEN result.kind = "Text"
           ELSE Failed("Num")
        /\ (func = "OCT2BIN" /\ number = IntNumber(<< "7", "7", "7" >>)) =>
                Returned(Rep("1", 9))
        /\ (func = "OCT2BIN" /\ number = IntNumber(<< "1", "0", "0", "0" >>)) =>
                Failed("Num")
        /\ (func = "HEX2BIN" /\ number = Text(Rep("F", 7) \o << "E", "0", "0" >>)) =>
                Returned(<< "1" >> \o Rep("0", 9))
        /\ (func = "HEX2BIN" /\ number = Text(Rep("F", 7) \o << "D", "F", "F" >>)) =>
                Failed("Num")
        /\ (func = "HEX2OCT" /\ number = Text(<< "1" >> \o Rep("F", 7))) =>
                Returned(<< "3" >> \o Rep("7", 9))
        /\ (func = "HEX2OCT" /\ number = IntNumber(<< "2" >> \o Rep("0", 7))) =>
                Failed("Num")

C23_Witness ==
    /\ func = "HEX2BIN"
    /\ Omitted
    /\ number = Text(Rep("F", 7) \o << "D", "F", "F" >>)
    /\ Failed("Num")

\* a hex letter in its other case, any other character unchanged
OtherCase(c) ==
    IF \E i \in 11..16 : UpperDigits[i] = c
    THEN LowerDigits[CHOOSE i \in 11..16 : UpperDigits[i] = c]
    ELSE IF \E i \in 11..16 : LowerDigits[i] = c
    THEN UpperDigits[CHOOSE i \in 11..16 : LowerDigits[i] = c]
    ELSE c

\* t with the character at position i in its other case
SwapCaseAt(t, i) == [j \in 1..Len(t) |-> IF j = i THEN OtherCase(t[j]) ELSE t[j]]

HexFuncs == { "HEX2BIN", "HEX2OCT", "HEX2DEC" }

\* C24: a Text number is taken verbatim as the digit string of the source
\* base.  A Text that is the decimal numeral of a Number gives the outcome
\* of that Number, and each of the twelve functions maps "1" to 1; "1e3" is
\* read by HEX2BIN and HEX2OCT as the hex digits 1, E, 3; replacing a hex
\* letter by its other case never changes the outcome;
\* HEX2DEC("FFFFffffff") = -1, HEX2OCT("Ffe0000000") = "4000000000".
C24_TextVerbatim ==
    (Called /\ number.kind = "Text") =>
        LET t == number.text IN
        /\ (IsDecimalNumeral(t) /\ Range(t) \subseteq AlphabetOf(SourceRadix(func))) =>
                SameOutcome(result, Apply(func, IntNumber(t), places))
        /\ (t = << "1" >> /\ Omitted) =>
                IF func \in ToDecimal THEN ReturnedInt(BigOf(1))
                                      ELSE Returned(<< "1" >>)
        /\ (t = << "1", "e", "3" >> /\ Omitted) =>
              /\ func = "HEX2BIN" => Returned(<< "1", "1", "1", "1", "0", "0", "0", "1", "1" >>)
              /\ func = "HEX2OCT" => Returned(<< "7", "4", "3" >>)
              /\ func = "HEX2DEC" => ReturnedInt(BigOf(483))
        /\ func \in HexFuncs =>
                \A i \in 1..Len(t) :
                    SameOutcome(result, Apply(func, Text(SwapCaseAt(t, i)), places))
        /\ (func = "HEX2DEC" /\ t = Rep("F", 4) \o Rep("f", 6)) =>
                ReturnedInt(BigOf(-1))
        /\ (func = "HEX2OCT" /\ t = << "F", "f", "e" >> \o Rep("0", 7) /\ Omitted) =>
                Returned(<< "4" >> \o Rep("0", 9))

C24_Witness ==
    /\ func = "HEX2OCT"
    /\ Omitted
    /\ number = Text(<< "F", "f", "e" >> \o Rep("0", 7))
    /\ Returned(<< "4" >> \o Rep("0", 9))

\* C25: every call of the twelve functions with number a Blank, Boolean,
\* Number or Text (and places possibly omitted) returns a result or fails
\* with a Value or a Num error: no other error and no unclassified failure.
C25_OnlyValueOrNum ==
    Called =>
        \/ result.kind \in { "Text", "Int" }
        \/ Failed("Value")
        \/ Failed("Num")

\* OCT2DEC("") ends in the ValueError of int("", 8)
C25_Witness ==
    /\ func = "OCT2DEC"
    /\ number = Text(<< >>)
    /\ result = PyValueError

\* the DEC2* function that writes the target base of f
EncoderOf(f) ==
    CASE TargetRadix(f) = 2  -> "DEC2BIN"
      [] TargetRadix(f) = 8  -> "DEC2OCT"
      [] TargetRadix(f) = 16 -> "DEC2HEX"

\* the six functions from one of the bases 2, 8, 16 to another
BaseToBaseFuncs == FromBaseFuncs \ ToDecimal

\* C26: each base-to-base function factors through decimal: with places
\* omitted and every input x on which X2DEC(x) succeeds, X2Y(x) has the
\* outcome of DEC2Y(X2DEC(x)): the same digit string, or a Num error when
\* the decoded value is outside the signed range of Y.
C26_FactorsThroughDecimal ==
    (func \in BaseToBaseFuncs /\ Omitted
        /\ Apply(DecoderOf(func), number, UNUSED).kind = "Int") =>
        SameOutcome(result,
                    Apply(EncoderOf(func),
                          AsArg(Apply(DecoderOf(func), number, UNUSED)), UNUSED))

\* HEX2DEC("") = 0 and DEC2BIN(0) = "0", but HEX2BIN("") ends in the
\* ValueError of int("", 16)
C26_Witness ==
    /\ func = "HEX2BIN"
    /\ Omitted
    /\ number = Text(<< >>)
    /\ HEX2DEC(number) = RetInt(Zero)
    /\ result = PyValueError

\* C27: decimal values round-trip through binary and octal: for every
\* integer d in [-512, 511], BIN2DEC(DEC2BIN(d)) = d, and for every integer d
\* in [-2^29, 2^29 - 1], OCT2DEC(DEC2OCT(d)) = d.
C27_DecimalRoundTrip ==
    (func \in { "DEC2BIN", "DEC2OCT" } /\ Omitted /\ IsIntegral(number)
        /\ FitsWidth(ValueOf(number), WidthOf(TargetRadix(func)))) =>
        /\ result.kind = "Text"
        /\ LET back == IF func = "DEC2BIN" THEN BIN2DEC(AsArg(result))
                                           ELSE OCT2DEC(AsArg(result))
           IN  back.kind = "Int" /\ back.int = ValueOf(number)

C27_Witness ==
    /\ func = "DEC2OCT"
    /\ Omitted
    /\ number = Number(TRUE, Shl1(29), 0, FALSE)
    /\ Returned(<< "4" >> \o Rep("0", 9))
    /\ OCT2DEC(AsArg(result)) = RetInt(BNeg(Shl1(29)))

\* C28: every string returned by one of the nine string-returning
\* functions, for any number and any places, has between 1 and 10
\* characters, all digits of the target base (0-1, 0-7, 0-9 and uppercase
\* A-F), with no sign and no prefix; with places omitted and a non-negative
\* value it has no leading zero unless it is exactly "0".
C28_ResultShape ==
    (func \in TakesPlaces /\ result.kind = "Text") =>
        /\ Len(result.text) \in 1..10
        /\ Range(result.text) \subseteq DigitsOfBase(TargetRadix(func))
        /\ (Omitted /\ ConvertsNonNegative) =>
                (result.text[1] = "0" => result.text = << "0" >>)

C28_Witness ==
    /\ func = "OCT2HEX"
    /\ number = Text(Rep("7", 10))
    /\ places = IntPlaces(1)
    /\ Returned(Rep("F", 10))

\* C29: the two implementations agree: for each of the twelve function
\* names and every non-negative integer Number with places omitted, the
\* version in xlfunctions/math.py and the version in
\* xlfunctions/engineering.py have the same outcome.
C29_ImplementationsAgree ==
    (Called /\ Omitted /\ IsIntegral(number) /\ ~number.neg) =>
        SameOutcome(result, math_Apply(func, number, UNUSED))

\* OCT2HEX(14000000000) is "20000000" in engineering.py and a Num error in
\* math.py
C29_Witness ==
    /\ func = "OCT2HEX"
    /\ Omitted
    /\ number = IntNumber(<< "1", "4" >> \o Rep("0", 9))
    /\ Returned(<< "2" >> \o Rep("0", 7))
    /\ math_OCT2HEX(number, UNUSED) = NumExcelError

\* How often the body of f was left by an exception.
Raised(f) == started[f] - completed[f] - (IF running = f THEN 1 ELSE 0)

\* C30: a patched function is applied at most once.  It never returns
\* normally twice; its __applied__ flag is set exactly when it has returned
\* normally, so never while its body runs and never by a run that raised;
\* when its first run returned normally that run is its only one, however
\* often its wrappers were entered since; and as long as it is unapplied
\* every entry of a wrapper has entered its body again.
C30_AppliedAtMostOnce ==
    \A f \in Funcs :
        /\ completed[f] <= 1
        /\ applied[f] <=> completed[f] = 1
        /\ running = f => ~applied[f]
        /\ first[f] = "returned" => started[f] = 1 /\ completed[f] = 1
        /\ applied[f] => started[f] = Raised(f) + 1
        /\ ~applied[f] => started[f] = calls[f]

\* The first run of a function raised, the second returned normally, and a
\* third entry of its wrapper found it applied.
C30_Witness ==
    /\ Idle
    /\ first[1] = "raised"
    /\ applied[1]
    /\ calls[1] = 3
    /\ started[1] = 2
    /\ completed[1] = 1

====
